---- MODULE Spec2Model ----
(***************************************************************************)
(* Model of deploy/mltests.py: the five invariant checks on a parameter    *)
(* tensor (check_nan, check_infinite, check_smaller, check_greater,        *)
(* check_gradient_smaller) and the driver model_test that trains for a     *)
(* number of epochs and validates every trainable parameter after each     *)
(* optimizer step.                                                         *)
(*                                                                         *)
(* Numbers.  A tensor element is a float: a finite number, +Inf/-Inf or    *)
(* NaN.  Finite numbers and thresholds are integers in units of 1e-2, so   *)
(* the defaults lower_limit=1e-2, upper_limit=1e-1, grad_limit=1e4 are     *)
(* 1, 10 and 1000000.  Comparisons follow IEEE-754 as torch does: every    *)
(* comparison with NaN is false.                                           *)
(*                                                                         *)
(* The model, the optimizer and the loss are opaque to model_test: what a   *)
(* parameter tensor holds after optim_fn.step() is any value, read when    *)
(* the loop of line 180 binds the tensor, and its gradient is any value,   *)
(* read when line 124 reads params.grad.                                   *)
(***************************************************************************)
EXTENDS Integers, Sequences, FiniteSets

\* ---------------------------------------------------------------- bounds
MaxEpochs == 2
MaxLen == 2
UnitMaxLen == 2

\* ---------------------------------------------------- defaults (line 140)
default_upper_limit == 10
default_lower_limit == 1
default_grad_limit == 1000000

\* defaults of the checks' own signatures (lines 75, 93, 111)
check_smaller_default == 0
check_greater_default == 0
check_gradient_smaller_default == 100000

\* ----------------------------------------------------------------- floats
Fin(n) == [k |-> "fin", v |-> n]
NaN == [k |-> "nan", v |-> 0]
PosInf == [k |-> "inf", v |-> 1]
NegInf == [k |-> "inf", v |-> -1]

\* torch.Tensor.isnan / isinf, one element
IsNan(x) == x.k = "nan"
IsInf(x) == x.k = "inf"

\* torch.Tensor.abs, one element
Abs(x) ==
    CASE x.k = "fin" -> Fin(IF x.v < 0 THEN -x.v ELSE x.v)
      [] x.k = "inf" -> PosInf
      [] OTHER -> NaN

\* torch.Tensor.less / greater against a finite scalar, one element
Less(x, lim) ==
    CASE x.k = "fin" -> x.v < lim
      [] x.k = "inf" -> x.v < 0
      [] OTHER -> FALSE

Greater(x, lim) ==
    CASE x.k = "fin" -> x.v > lim
      [] x.k = "inf" -> x.v > 0
      [] OTHER -> FALSE

\* elementwise maps and the reduction .any() over a (flattened) tensor
isnan(t) == [i \in DOMAIN t |-> IsNan(t[i])]
isinf(t) == [i \in DOMAIN t |-> IsInf(t[i])]
abs(t) == [i \in DOMAIN t |-> Abs(t[i])]
less(t, lim) == [i \in DOMAIN t |-> Less(t[i], lim)]
greater(t, lim) == [i \in DOMAIN t |-> Greater(t[i], lim)]
any(b) == \E i \in DOMAIN b : b[i]

\* params.grad: None until a backward pass populates it
NoGrad == [isNone |-> TRUE, data |-> <<>>]
GradOf(t) == [isNone |-> FALSE, data |-> t]

\* ------------------------------------------------------------- exceptions
\* An exception is its class and what its message interpolates.
NoException == [kind |-> "None", names |-> {}, thresholds |-> {}]
Exception(kind, names, thresholds) ==
    [kind |-> kind, names |-> names, thresholds |-> thresholds]

\* A parameter tensor: its elements and its .grad attribute.
Param(data, grad) == [data |-> data, grad |-> grad]

\* ------------------------------------------------------------ the checks
\* Each check returns the exception it raises, NoException when it returns.

\* check_nan that finds nothing
check_nan_blind(name, params) == NoException

\* assert not params.isnan().any()
check_nan(name, params) ==
    IF ~ (~ any(isnan(params.data)))
    THEN Exception("NaNParams", {name}, {})
    ELSE NoException

\* check_infinite whose message leaves the layer out
check_infinite_anonymous(name, params) ==
    IF any(isinf(params.data))
    THEN Exception("InfParams", {}, {})
    ELSE NoException

\* assert not params.isinf().any()
check_infinite(name, params) ==
    IF ~ (~ any(isinf(params.data)))
    THEN Exception("InfParams", {name}, {})
    ELSE NoException

\* check_smaller with .all() for .any()
check_smaller_all(name, params, upper) ==
    IF ~ (\A i \in DOMAIN params.data : Less(Abs(params.data[i]), upper))
    THEN Exception("ParamsTooLarge", {name}, {upper})
    ELSE NoException

\* assert params.abs().less(upper_limit).any()
check_smaller(name, params, upper) ==
    IF ~ any(less(abs(params.data), upper))
    THEN Exception("ParamsTooLarge", {name}, {upper})
    ELSE NoException

\* assert params.abs().greater(lower_limit).any()
check_greater(name, params, lower) ==
    IF ~ any(greater(abs(params.data), lower))
    THEN Exception("ParamsTooSmall", {name}, {lower})
    ELSE NoException

\* check_gradient_smaller without the test for None
check_gradient_smaller_no_none_test(name, params, limit) ==
    IF any(greater(abs(params.grad.data), limit))
    THEN Exception("GradientAboveThreshold", {name}, {limit})
    ELSE NoException

\* check_gradient_smaller that raises only when every gradient is too large
check_gradient_smaller_all(name, params, limit) ==
    IF params.grad.isNone
    THEN Exception("GradientsUninitialized", {}, {})
    ELSE IF \A i \in DOMAIN params.grad.data :
                Greater(Abs(params.grad.data[i]), limit)
         THEN Exception("GradientAboveThreshold", {name}, {limit})
         ELSE NoException

\* grads = params.grad; assert not (grads == None);
\* assert not grads.abs().greater(grad_limit).any()
check_gradient_smaller(name, params, limit) ==
    LET grads == params.grad IN
    IF ~ (~ grads.isNone)
    THEN Exception("GradientsUninitialized", {}, {})
    ELSE IF ~ (~ any(greater(abs(grads.data), limit)))
         THEN Exception("GradientAboveThreshold", {name}, {limit})
         ELSE NoException

\* ------------------------------------------------------------- the driver
VARIABLES
    cfg,      \* arguments of the call: epochs, the five toggles, the limits
    model,    \* model.named_parameters(): <<[name, requires_grad], ...>>
    pc,       \* the statement about to run; "Done" returned, "Failed" raised
    epoch,    \* loop variable of line 172
    model_params, \* line 179: names returned by get_params
    idx,      \* how many entries of model_params the loop of line 180 has bound
    name,     \* loop variable of line 180
    params,   \* loop variable of line 180: the elements of the bound tensor
    grads,    \* params.grad as line 124 read it for the bound tensor
    failure,  \* the exception that left the call, NoException if none
    ops,      \* history: statements of lines 173-179 run in this epoch
    log,      \* history: every check run, in order
    notes     \* output: the epochs printed by line 192

vars == <<cfg, model, pc, epoch, model_params, idx, name, params, grads,
          failure, ops, log, notes>>

ParamNames == <<"weight", "bias">>

\* the models: every requires_grad flagging of the named parameters
Models ==
    { [i \in DOMAIN ParamNames |-> [name |-> ParamNames[i], requires_grad |-> f[i]]] :
        f \in [DOMAIN ParamNames -> BOOLEAN] }

\* element values a tensor may hold after a step, gradient values after backward
Values == {NaN, PosInf, Fin(0), Fin(-5), Fin(20)}
GradValues == {Fin(0), Fin(-2000000)}

SeqsUpTo(S, n) == UNION { [1..l -> S] : l \in 0..n }

\* the gradient of tensor t after backward: absent (the parameter took no part
\* in the loss) or of the tensor's shape
GradsOf(t, gvals) == {NoGrad} \cup { GradOf(g) : g \in [DOMAIN t -> gvals] }

\* no tensor read
Unread == <<>>

Configs ==
    [ epochs : 0..MaxEpochs,
      test_gradient_smaller : BOOLEAN, test_greater : BOOLEAN,
      test_smaller : BOOLEAN, test_infinite : BOOLEAN, test_nan : BOOLEAN,
      upper_limit : {default_upper_limit},
      lower_limit : {default_lower_limit},
      grad_limit : {default_grad_limit} ]

\* get_params: the trainable parameters, in the model's order
RECURSIVE get_params(_)
get_params(m) ==
    IF m = <<>> THEN <<>>
    ELSE (IF Head(m).requires_grad THEN <<Head(m).name>> ELSE <<>>)
         \o get_params(Tail(m))

\* the epoch body validating before the backward pass and the step
Body_validate_early ==
    <<"zero_grad", "forward", "loss", "get_params", "backward", "step">>

\* lines 173-179, in program order
Body == <<"zero_grad", "forward", "loss", "backward", "step", "get_params">>

\* the parameter loop testing for Inf before NaN
CheckOrder_inf_first ==
    <<"greater", "smaller", "gradient_smaller", "infinite", "nan">>

\* lines 181-190, in program order
CheckOrder == <<"greater", "smaller", "gradient_smaller", "nan", "infinite">>

IndexOf(seq, x) == CHOOSE i \in DOMAIN seq : seq[i] = x

\* the statement after statement s of the epoch body
AfterStmt(s) ==
    LET i == IndexOf(Body, s) IN
    IF i < Len(Body) THEN Body[i + 1] ELSE "for_param"

\* the statement after check c of the parameter loop
AfterCheck(c) ==
    LET i == IndexOf(CheckOrder, c) IN
    IF i < Len(CheckOrder) THEN CheckOrder[i + 1] ELSE "for_param"

\* the guards with the NaN check unconditional
Toggle_nan_always(c, conf) ==
    CASE c = "greater" -> conf.test_greater
      [] c = "smaller" -> conf.test_smaller
      [] c = "gradient_smaller" -> conf.test_gradient_smaller
      [] c = "nan" -> TRUE
      [] c = "infinite" -> conf.test_infinite

\* the `if test_<c>:` guards of lines 181-189
Toggle(c, conf) ==
    CASE c = "greater" -> conf.test_greater
      [] c = "smaller" -> conf.test_smaller
      [] c = "gradient_smaller" -> conf.test_gradient_smaller
      [] c = "nan" -> conf.test_nan
      [] c = "infinite" -> conf.test_infinite

\* the calls of lines 182-190
Call(c, conf, n, p) ==
    CASE c = "greater" -> check_greater(n, p, conf.lower_limit)
      [] c = "smaller" -> check_smaller(n, p, conf.upper_limit)
      [] c = "gradient_smaller" -> check_gradient_smaller(n, p, conf.grad_limit)
      [] c = "nan" -> check_nan(n, p)
      [] c = "infinite" -> check_infinite(n, p)

\* a driver that catches the exception of a check and goes on
Propagate_swallow(exc, next) == next

\* model_test has no try/except: an exception of a check leaves the call
Propagate(exc, next) == IF exc = NoException THEN next ELSE "Failed"

Init ==
    /\ cfg \in Configs
    /\ model \in Models
    /\ pc = "for_epoch"
    /\ epoch = 0
    /\ model_params = <<>>
    /\ idx = 0
    /\ name = ""
    /\ params = Unread
    /\ grads = NoGrad
    /\ failure = NoException
    /\ ops = <<>>
    /\ log = <<>>
    /\ notes = <<>>

\* line 172: for epoch in range(epochs)
ForEpoch ==
    /\ pc = "for_epoch"
    /\ IF epoch < cfg.epochs
       THEN pc' = Body[1] /\ ops' = <<>>
       ELSE pc' = "Done" /\ ops' = ops
    /\ UNCHANGED <<cfg, model, epoch, model_params, idx, name, params, grads,
                   failure, log, notes>>

\* a statement of lines 173-177: it runs and control moves on
Stmt(s) ==
    /\ pc = s
    /\ ops' = Append(ops, s)
    /\ pc' = AfterStmt(s)
    /\ UNCHANGED <<cfg, model, epoch, model_params, idx, name, failure, log, notes>>

\* line 173: optim_fn.zero_grad()
ZeroGrad == Stmt("zero_grad") /\ UNCHANGED <<params, grads>>

\* line 174: output = model(batch_x)
Forward == Stmt("forward") /\ UNCHANGED <<params, grads>>

\* line 175: loss = loss_fn(output, batch_y)
Loss == Stmt("loss") /\ UNCHANGED <<params, grads>>

\* line 176: loss.backward() overwrites the gradients: none is read yet
Backward == Stmt("backward") /\ grads' = NoGrad /\ UNCHANGED params

\* line 177: optim_fn.step() overwrites every parameter tensor in place: what
\* the tensor `params` refers to now holds is not read yet
Step == Stmt("step") /\ params' = Unread /\ UNCHANGED grads

\* line 179: model_params = get_params(model)
GetParams ==
    /\ pc = "get_params"
    /\ ops' = Append(ops, "get_params")
    /\ model_params' = get_params(model)
    /\ idx' = 0
    /\ pc' = AfterStmt("get_params")
    /\ UNCHANGED <<cfg, model, epoch, name, params, grads, failure, log, notes>>

\* line 180: for name, params in model_params
ForParam ==
    /\ pc = "for_param"
    /\ IF idx < Len(model_params)
       THEN /\ idx' = idx + 1
            /\ name' = model_params[idx + 1]
            /\ params' \in SeqsUpTo(Values, MaxLen)
            /\ grads' = NoGrad
            /\ pc' = CheckOrder[1]
       ELSE /\ pc' = "print"
            /\ UNCHANGED <<idx, name, params, grads>>
    /\ UNCHANGED <<cfg, model, epoch, model_params, failure, ops, log, notes>>

\* lines 181-190: if test_<c>: check_<c>(name, params, ...), the tensor's
\* gradient being g
Check(c, g) ==
    /\ pc = c
    /\ IF Toggle(c, cfg)
       THEN LET exc == Call(c, cfg, name, Param(params, g)) IN
            /\ log' = Append(log, [epoch |-> epoch, idx |-> idx, check |-> c,
                                   ok |-> exc = NoException])
            /\ failure' = exc
            /\ pc' = Propagate(exc, AfterCheck(c))
       ELSE /\ pc' = AfterCheck(c)
            /\ UNCHANGED <<log, failure>>
    /\ UNCHANGED <<cfg, model, epoch, model_params, idx, name, params, ops, notes>>

CheckGreater == Check("greater", grads) /\ UNCHANGED grads
CheckSmaller == Check("smaller", grads) /\ UNCHANGED grads

\* lines 185-186; line 124 reads params.grad when the check is called
CheckGradientSmaller ==
    IF Toggle("gradient_smaller", cfg)
    THEN \E g \in GradsOf(params, GradValues) :
            Check("gradient_smaller", g) /\ grads' = g
    ELSE Check("gradient_smaller", grads) /\ UNCHANGED grads

CheckNan == Check("nan", grads) /\ UNCHANGED grads
CheckInfinite == Check("infinite", grads) /\ UNCHANGED grads

\* line 192: print(f"Epoch {epoch}: All tests passed successfully.")
PrintPassed ==
    /\ pc = "print"
    /\ notes' = Append(notes, epoch)
    /\ epoch' = epoch + 1
    /\ pc' = "for_epoch"
    /\ UNCHANGED <<cfg, model, model_params, idx, name, params, grads, failure,
                   ops, log>>

Next ==
    \/ ForEpoch
    \/ ZeroGrad
    \/ Forward
    \/ Loss
    \/ Backward
    \/ Step
    \/ GetParams
    \/ ForParam
    \/ CheckGreater
    \/ CheckSmaller
    \/ CheckGradientSmaller
    \/ CheckNan
    \/ CheckInfinite
    \/ PrintPassed

Spec == Init /\ [][Next]_vars

\* ------------------------------------------------- the checks on their own
\* A caller calls one check on a tensor of its choice.

UnitValues == {NaN, PosInf, NegInf, Fin(0), Fin(1), Fin(-5), Fin(10), Fin(-20)}
UnitGradValues == {NaN, NegInf, Fin(0), Fin(-100000), Fin(1000000), Fin(-2000000)}

UnitConfigs ==
    [ epochs : {0},
      test_gradient_smaller : {TRUE}, test_greater : {TRUE},
      test_smaller : {TRUE}, test_infinite : {TRUE}, test_nan : {TRUE},
      upper_limit : {check_smaller_default, default_upper_limit},
      lower_limit : {check_greater_default, default_lower_limit},
      grad_limit : {check_gradient_smaller_default, default_grad_limit} ]

CheckInit ==
    /\ cfg \in UnitConfigs
    /\ model = <<>>
    /\ pc = "call"
    /\ epoch = 0
    /\ model_params = <<>>
    /\ idx = 0
    /\ name = ""
    /\ params = Unread
    /\ grads = NoGrad
    /\ failure = NoException
    /\ ops = <<>>
    /\ log = <<>>
    /\ notes = <<>>

\* check_<c>(n, p, ...) is called and returns or raises
CallCheck(c, n, p) ==
    /\ pc = "call"
    /\ name' = n
    /\ params' = p.data
    /\ grads' = p.grad
    /\ LET exc == Call(c, cfg, n, p) IN
       /\ failure' = exc
       /\ log' = <<[epoch |-> 0, idx |-> 0, check |-> c, ok |-> exc = NoException]>>
       /\ pc' = IF exc = NoException THEN "returned" ELSE "raised"
    /\ UNCHANGED <<cfg, model, epoch, model_params, idx, ops, notes>>

UnitParams ==
    { Param(d, NoGrad) : d \in SeqsUpTo(UnitValues, UnitMaxLen) }

UnitGradParams ==
    { Param(<<>>, g) :
        g \in {NoGrad} \cup { GradOf(t) : t \in SeqsUpTo(UnitGradValues, UnitMaxLen) } }

UnitNames == {ParamNames[i] : i \in DOMAIN ParamNames}

CallCheckNan ==
    /\ pc = "call"
    /\ \E n \in UnitNames, p \in UnitParams : CallCheck("nan", n, p)
CallCheckInfinite ==
    /\ pc = "call"
    /\ \E n \in UnitNames, p \in UnitParams : CallCheck("infinite", n, p)
CallCheckSmaller ==
    /\ pc = "call"
    /\ \E n \in UnitNames, p \in UnitParams : CallCheck("smaller", n, p)
CallCheckGreater ==
    /\ pc = "call"
    /\ \E n \in UnitNames, p \in UnitParams : CallCheck("greater", n, p)
CallCheckGradientSmaller ==
    /\ pc = "call"
    /\ \E n \in UnitNames, p \in UnitGradParams : CallCheck("gradient_smaller", n, p)

CheckNext ==
    \/ CallCheckNan
    \/ CallCheckInfinite
    \/ CallCheckSmaller
    \/ CallCheckGreater
    \/ CallCheckGradientSmaller

CheckSpec == CheckInit /\ [][CheckNext]_vars

\* ------------------------------------------------------------- properties
\* What the properties say about numbers, stated on the numbers themselves.

\* |x| < lim and |x| > lim for a float x and a finite lim
StrictlyBelow(x, lim) == x.k = "fin" /\ -lim < x.v /\ x.v < lim
StrictlyAbove(x, lim) ==
    \/ x.k = "inf"
    \/ x.k = "fin" /\ (x.v > lim \/ x.v < -lim)

HasNaN(t) == \E i \in DOMAIN t : t[i].k = "nan"
HasInf(t) == \E i \in DOMAIN t : t[i].k = "inf"

\* the order and the failure kinds the specification gives the checks
ClaimedOrder == <<"greater", "smaller", "gradient_smaller", "nan", "infinite">>
ClaimedCycle == <<"zero_grad", "forward", "loss", "backward", "step", "get_params">>
Rank(c) == CHOOSE i \in DOMAIN ClaimedOrder : ClaimedOrder[i] = c

KindsOf(c) ==
    CASE c = "greater" -> {"ParamsTooSmall"}
      [] c = "smaller" -> {"ParamsTooLarge"}
      [] c = "gradient_smaller" -> {"GradientAboveThreshold", "GradientsUninitialized"}
      [] c = "nan" -> {"NaNParams"}
      [] c = "infinite" -> {"InfParams"}

On(c) ==
    CASE c = "greater" -> cfg.test_greater
      [] c = "smaller" -> cfg.test_smaller
      [] c = "gradient_smaller" -> cfg.test_gradient_smaller
      [] c = "nan" -> cfg.test_nan
      [] c = "infinite" -> cfg.test_infinite

AllChecks == {"greater", "smaller", "gradient_smaller", "nan", "infinite"}
AllOn == \A c \in AllChecks : On(c)
AllOff == \A c \in AllChecks : ~On(c)

\* check c finds tensor t with gradient g in violation
Violates(c, t, g) ==
    CASE c = "greater" -> ~ \E i \in DOMAIN t : StrictlyAbove(t[i], cfg.lower_limit)
      [] c = "smaller" -> ~ \E i \in DOMAIN t : StrictlyBelow(t[i], cfg.upper_limit)
      [] c = "gradient_smaller" ->
            \/ g.isNone
            \/ \E i \in DOMAIN g.data : StrictlyAbove(g.data[i], cfg.grad_limit)
      [] c = "nan" -> HasNaN(t)
      [] c = "infinite" -> HasInf(t)

Last(q) == q[Len(q)]
Failed == pc = "Failed"
Validating == pc \in AllChecks \cup {"for_param", "print"}

\* C1: the first check that fails aborts the whole run: the failed check is
\* the last check ever run, the run is Failed from then on, the epoch of the
\* failure prints no success and no later epoch starts.
C1_AbortOnFirstViolation ==
    /\ Failed <=> failure # NoException
    /\ \A j \in DOMAIN log : ~ log[j].ok => j = Len(log) /\ Failed
    /\ Failed =>
        /\ log # <<>>
        /\ ~ Last(log).ok
        /\ Last(log).epoch = epoch /\ Last(log).idx = idx
        /\ \A k \in DOMAIN notes : notes[k] < epoch
        /\ ops = ClaimedCycle

C1_Witness ==
    /\ Failed
    /\ epoch = 1
    /\ idx = 1
    /\ Len(model_params) = 2
    /\ Last(log).check = "smaller"

\* C2: parameters are validated in extraction order and the enabled checks
\* of a parameter run in the order greater, smaller, gradient-smaller, nan,
\* infinite, so the violation raised is that of the first failing
\* (parameter, check) pair; a parameter with both a NaN and an Inf that
\* reaches the NaN check is reported as NaNParams.
C2_FirstFailingPair ==
    /\ \A j \in DOMAIN log :
        /\ On(log[j].check)
        /\ log[j].idx \in DOMAIN model_params
        /\ j > 1 =>
            LET a == log[j - 1]  b == log[j] IN
            \/ a.epoch < b.epoch
            \/ a.epoch = b.epoch /\ a.idx < b.idx
            \/ a.epoch = b.epoch /\ a.idx = b.idx /\ Rank(a.check) < Rank(b.check)
    /\ Failed =>
        LET c == Last(log).check IN
        /\ Violates(c, params, grads)
        /\ failure.kind \in KindsOf(c)
        /\ name = model_params[idx]
        /\ \A d \in AllChecks :
            On(d) /\ Rank(d) < Rank(c) =>
                /\ ~ Violates(d, params, grads)
                /\ \E j \in DOMAIN log :
                    log[j] = [epoch |-> epoch, idx |-> idx, check |-> d, ok |-> TRUE]
        /\ \A i \in 1..(idx - 1) : \A d \in AllChecks :
            On(d) => \E j \in DOMAIN log :
                log[j] = [epoch |-> epoch, idx |-> i, check |-> d, ok |-> TRUE]
        /\ (HasNaN(params) /\ HasInf(params) /\ On("nan")) =>
                /\ failure.kind # "InfParams"
                /\ c = "nan" => failure.kind = "NaNParams"

C2_Witness ==
    /\ Failed
    /\ idx = 2
    /\ HasNaN(params) /\ HasInf(params)
    /\ cfg.test_nan /\ cfg.test_infinite
    /\ failure.kind = "NaNParams"

\* no NaN, no Inf, every element strictly between the limits in absolute value
HealthyTensor(t) ==
    \A i \in DOMAIN t :
        /\ t[i].k = "fin"
        /\ StrictlyAbove(t[i], cfg.lower_limit)
        /\ StrictlyBelow(t[i], cfg.upper_limit)

\* C3: a run in which every parameter validated has no NaN and no Inf, every
\* element strictly between lower_limit and upper_limit in absolute value and
\* a populated gradient within grad_limit raises no violation; a run that
\* returns has printed the epochs 0..N-1 in order.
C3_HealthyRunPasses ==
    /\ Failed => Last(log).check = "gradient_smaller" \/ ~ HealthyTensor(params)
    /\ pc = "Done" => notes = [k \in 1..cfg.epochs |-> k - 1]

\* C4 as claimed: with all five checks enabled, a parameter holding a NaN
\* ends the run with NaNParams naming that parameter.
C4_NanAlwaysReportedAsNan ==
    (AllOn /\ Failed /\ HasNaN(params)) =>
        failure.kind = "NaNParams" /\ failure.names = {name}

\* C4 amended: with all five checks enabled, a parameter holding a NaN never
\* passes validation; the run fails on it, with NaNParams naming it when the
\* parameter passes greater, smaller and gradient-smaller, and the NaN check
\* is then the last check run.
C4_NanReportedWhenReached ==
    (AllOn /\ HasNaN(params)) =>
        /\ pc \in {"greater", "smaller", "gradient_smaller", "nan", "Failed"}
        /\ (Failed /\ \A d \in {"greater", "smaller", "gradient_smaller"} :
                            ~ Violates(d, params, grads)) =>
                /\ failure = [kind |-> "NaNParams", names |-> {name}, thresholds |-> {}]
                /\ Last(log) = [epoch |-> epoch, idx |-> idx, check |-> "nan",
                                ok |-> FALSE]

C4_Witness ==
    /\ AllOn
    /\ Failed
    /\ failure.kind = "NaNParams"
    /\ idx = 2
    /\ Cardinality({i \in DOMAIN params : params[i].k = "nan"}) = 1

\* C5: a check whose toggle is false never runs and its failure kinds are
\* never raised, whatever the tensors hold; with all five toggles false no
\* run fails and every run goes on until it returns.
C5_DisabledCheckNeverRaises ==
    /\ \A c \in AllChecks : ~ On(c) =>
        /\ failure.kind \notin KindsOf(c)
        /\ \A j \in DOMAIN log : log[j].check # c
    /\ AllOff =>
        /\ ~ Failed
        /\ log = <<>>
        /\ pc # "Done" => ENABLED Next

C5_Witness ==
    /\ AllOff
    /\ pc = "Done"
    /\ cfg.epochs > 0
    /\ HasNaN(params) /\ HasInf(params)

\* C10: every epoch runs clear-gradients, forward, loss, backward, optimizer
\* step, validate in this order; validation starts after the step of its
\* epoch, epoch k+1 starts after epoch k printed its success, and a run that
\* returns has run exactly N such cycles.
C10_EpochCycle ==
    /\ epoch \in 0..cfg.epochs
    /\ notes = [k \in 1..epoch |-> k - 1]
    /\ \E n \in 0..Len(ClaimedCycle) : ops = SubSeq(ClaimedCycle, 1, n)
    /\ \A n \in DOMAIN ClaimedCycle :
        pc = ClaimedCycle[n] => ops = SubSeq(ClaimedCycle, 1, n - 1)
    /\ Validating \/ Failed => ops = ClaimedCycle
    /\ \A j \in DOMAIN log : log[j].epoch <= epoch
    /\ \A j, k \in DOMAIN log :
        (log[j].epoch = log[k].epoch /\ log[j].idx = log[k].idx
            /\ log[j].check = log[k].check) => j = k
    /\ pc = "Done" => epoch = cfg.epochs /\ (cfg.epochs > 0 => ops = ClaimedCycle)

C10_Witness ==
    /\ pc = "Done"
    /\ cfg.epochs = 2
    /\ notes = <<0, 1>>
    /\ Len(model_params) = 2
    /\ Len(log) = 20

\* a check, called on its own or by model_test, has raised / has returned
Raised == pc \in {"raised", "Failed"}
Called(c) == pc \in {"raised", "returned"} /\ Last(log).check = c

C7_NoneGradientIsUninitialized ==
    (Called("gradient_smaller") /\ grads.isNone) =>
        /\ pc = "raised"
        /\ failure.kind = "GradientsUninitialized"

C7_Witness ==
    /\ Called("gradient_smaller")
    /\ grads.isNone
    /\ pc = "raised"
    /\ cfg.grad_limit = check_gradient_smaller_default

\* C8 as claimed: a populated gradient with at least one element whose
\* absolute value is <= grad_limit passes check_gradient_smaller, which raises
\* GradientAboveThreshold only when all elements exceed grad_limit.
C8_RaisesOnlyWhenAllExceed ==
    (Called("gradient_smaller") /\ ~ grads.isNone) =>
        /\ (\E i \in DOMAIN grads.data :
                grads.data[i].k = "fin"
                /\ ~ StrictlyAbove(grads.data[i], cfg.grad_limit)) =>
                    failure = NoException
        /\ failure.kind = "GradientAboveThreshold" =>
                \A i \in DOMAIN grads.data :
                    StrictlyAbove(grads.data[i], cfg.grad_limit)

\* C8 amended: for a populated gradient, check_gradient_smaller raises
\* GradientAboveThreshold exactly when at least one element exceeds grad_limit
\* in absolute value, and returns otherwise.
C8_RaisesWhenAnyExceeds ==
    (Called("gradient_smaller") /\ ~ grads.isNone) =>
        /\ failure.kind \in {"None", "GradientAboveThreshold"}
        /\ failure.kind = "GradientAboveThreshold" <=>
            \E i \in DOMAIN grads.data :
                StrictlyAbove(grads.data[i], cfg.grad_limit)
        /\ pc = "raised" <=> failure.kind = "GradientAboveThreshold"

\* one gradient within the limit, the other over it: the check raises
C8_Witness ==
    /\ Called("gradient_smaller")
    /\ grads = GradOf(<<Fin(0), Fin(-2000000)>>)
    /\ cfg.grad_limit = default_grad_limit
    /\ pc = "raised"

SixKinds ==
    {"ParamsTooLarge", "ParamsTooSmall", "GradientAboveThreshold",
     "GradientsUninitialized", "NaNParams", "InfParams"}

====
